---- MODULE Spec2Model ----
(***************************************************************************)
(* Model of the TikTok subtitle scrapers of this repository:               *)
(*   src/TikTok/Python-Standalone/subs_toolkit.py  (variant "standalone")  *)
(*   src/TikTok/subs_toolkit.py                    (variant "cli_v02")     *)
(*   src/TikTok/Streamlit/app.py                   (variant "app")         *)
(*                                                                         *)
(* Encoding of Python values:                                              *)
(*   - a dict is a TLA+ function; a key is present iff it is in DOMAIN;    *)
(*   - a str whose characters matter (language codes, subtitle text,       *)
(*     UrlExpire) is a tuple of one-character strings, "" is <<>>;         *)
(*   - a str that is only ever compared as a whole (a failure reason) is   *)
(*     a one-element tuple holding the whole text;                         *)
(*   - None is the tuple <<"None">>, which no str equals;                  *)
(*   - an artifact that was not produced is the record NoOutput;           *)
(*   - JSON null in place of a dict is the record JsonNull.                *)
(*                                                                         *)
(* Specifications:                                                         *)
(*   Spec         a scraping run, from the reading of the input file to    *)
(*                the report;                                              *)
(*   FairSpec     Spec, with every possible step eventually taken;         *)
(*   SpecNorm     parse_webvtt applied to a text, repeatedly;              *)
(*   SpecLimiter  the rate_limit wrapper of app.py called by the workers   *)
(*                of the pool.                                             *)
(***************************************************************************)
EXTENDS Integers, Sequences, FiniteSets, TLC

VARIABLES
    variant,          \* which script runs: "standalone", "cli_v02" or "app"
    find_type,        \* app.py only: "subtitle" or "caption"
    infile,           \* the lines of the input file, in file order
    items,            \* the parsed input records, in file order
    languages,        \* requested language codes, in request order
    num_videos,       \* the item limit
    threads,          \* the requested worker count
    save_format,      \* "text", "ndjson" or "csv"; cli_v02: append_mode is "ndjson"
    strip_timestamps, \* whether parse_webvtt strips the markup
    verbose,          \* scripts only: -v, which disables the tqdm progress bar
    now,              \* the wall clock, time.time()
    phase,            \* position of scrape_subtitles
    task,             \* per record: state of its download_subtitle call
    lang_pos,         \* per record: index of the next language of its loop
    results,          \* per record: the call's local `results` list
    unit_log,         \* per record and language: what the unit did (history)
    requests,         \* per record and language: HTTP GETs issued (history)
    files,            \* per record and language: the subtitle files the unit wrote
    all_results,      \* the collected result list
    arrival,          \* the records in the order their calls were collected (history)
    done_count,       \* units-completed progress counter
    output,           \* the aggregate artifact (CSV rows / NDJSON records)
    report,           \* the summary report
    text,             \* parse_webvtt on its own: the text it is first given
    normalized,       \* parse_webvtt on its own: the text after `passes` applications
    passes,           \* parse_webvtt on its own: number of applications so far
    last_reset,       \* rate_limit: the closure's `last_reset`
    calls_made,       \* rate_limit: the closure's `calls_made`
    clock,            \* rate_limit: time.time(), in periods since the decoration
    pending_calls,    \* rate_limit: calls the pool has still to hand to a worker
    worker,           \* rate_limit: per worker, its position in wrapper and its locals
    window_calls      \* rate_limit: calls admitted since calls_made was last zeroed (history)

\* the state of a scraping run
run_vars == <<variant, find_type, infile, items, languages, num_videos, threads,
              save_format, strip_timestamps, verbose, now, phase, task, lang_pos, results,
              unit_log, requests, files, all_results, arrival, done_count, output, report>>

\* the state of parse_webvtt applied on its own
norm_vars == <<text, normalized, passes>>

\* the state of the rate limiter wrapped around the app's download_subtitle
limiter_vars == <<last_reset, calls_made, clock, pending_calls, worker, window_calls>>

\* what a step of a scraping run leaves alone
apart == <<norm_vars, limiter_vars>>

vars == <<run_vars, apart>>

\* what the user supplies
settings == <<variant, find_type, infile, languages, num_videos, threads,
              save_format, strip_timestamps, verbose>>

inputs == <<settings, items>>

-----------------------------------------------------------------------------
(* Bounds *)

MaxRecords == 2     \* longest input file, in records
MaxThreads == 2     \* largest worker count
MaxTime    == 1     \* last clock value
MaxPieces  == 4     \* longest text given to parse_webvtt on its own, in pieces
MaxPasses  == 2     \* applications of parse_webvtt to one text
MaxCalls   == 12    \* most calls handed to the rate-limited function
MaxClock   == 4     \* last clock value the rate limiter's callers arrive at

\* @rate_limit(calls=10, period=1.0)
RateLimitCalls == 10
RateLimitPeriod == 1

-----------------------------------------------------------------------------
(* Python values *)

None == <<"None">>

NoOutput == [kind |-> "none"]

JsonNull == [py_null |-> TRUE]

IsDict(v) == "py_null" \notin DOMAIN v

EmptyDict == [k \in {} |-> <<>>]

\* dict.get(key, default)
Get(d, key, default) == IF key \in DOMAIN d THEN d[key] ELSE default

Digits == <<"0", "1", "2", "3", "4", "5", "6", "7", "8", "9">>

IsDigit(c) == \E i \in 1..10 : Digits[i] = c

DigitValue(c) == (CHOOSE i \in 1..10 : Digits[i] = c) - 1

\* int(s) succeeds on a non-empty run of decimal digits
IsNumeric(s) == Len(s) > 0 /\ \A i \in 1..Len(s) : IsDigit(s[i])

RECURSIVE IntOf(_)
IntOf(s) ==
    IF Len(s) = 0 THEN 0
    ELSE 10 * IntOf(SubSeq(s, 1, Len(s) - 1)) + DigitValue(s[Len(s)])

\* str.lower(), on the characters that occur in language codes
LowerChar(c) ==
    CASE c = "E" -> "e"
      [] c = "N" -> "n"
      [] c = "F" -> "f"
      [] c = "R" -> "r"
      [] c = "U" -> "u"
      [] c = "S" -> "s"
      [] OTHER -> c

Lower(s) == [i \in 1..Len(s) |-> LowerChar(s[i])]

\* str.startswith(prefix)
StartsWith(s, prefix) ==
    Len(prefix) <= Len(s) /\ SubSeq(s, 1, Len(prefix)) = prefix

-----------------------------------------------------------------------------
(* Input pools *)

Far == <<"9">>      \* an expiry later than every clock value of the model

D_en      == [LanguageCodeName |-> <<"e", "n">>, Format |-> "webvtt",
              Url |-> <<"u", "1">>, UrlExpire |-> <<"1">>]
D_enUS    == [LanguageCodeName |-> <<"E", "N", "-", "u", "s">>, Format |-> "webvtt",
              Url |-> <<"u", "2">>, UrlExpire |-> Far]
D_fr_nourl == [LanguageCodeName |-> <<"f", "r">>, Format |-> "webvtt",
              Url |-> <<>>, UrlExpire |-> Far]
D_fr_bad  == [LanguageCodeName |-> <<"f", "r">>, Format |-> "webvtt",
              Url |-> <<"u", "3">>, UrlExpire |-> <<"x">>]
D_en_srt  == [LanguageCodeName |-> <<"e", "n">>, Format |-> "srt",
              Url |-> <<"u", "4">>, UrlExpire |-> Far]
D_EN      == [LanguageCodeName |-> <<"E", "N">>, Format |-> "webvtt",
              Url |-> <<"u", "2">>, UrlExpire |-> Far]
D_fr_noexp == [LanguageCodeName |-> <<"f", "r">>, Format |-> "webvtt",
              Url |-> <<"u", "3">>]

\* the `data` values of the input records
DataPool ==
    { [item_id |-> "A", id |-> "B",
       video |-> [subtitleInfos |-> <<D_en_srt, D_en, D_EN, D_fr_nourl>>,
                  claInfo |-> [captionInfos |-> <<D_enUS, D_en, D_EN, D_fr_noexp>>]]],
      [video |-> [subtitleInfos |-> <<D_enUS, D_fr_bad>>, claInfo |-> JsonNull]],
      JsonNull }

\* a line that is not JSON
Malformed == [bad_json |-> TRUE]

\* the `data` of a record without media: every language is unavailable
NoMedia == [id |-> "E"]

\* a file with one record more than the largest pool has workers
Backlog == [j \in 1..(MaxThreads + 1) |-> NoMedia]

\* input files: every record carries its line number as the rest of its payload
ItemLists ==
    UNION { [1..n -> DataPool \cup {Malformed}] : n \in 0..MaxRecords }
    \cup {Backlog}

Items(ds) ==
    [j \in 1..Len(ds) |->
        IF ds[j] = Malformed THEN Malformed ELSE [data |-> ds[j], line |-> j]]

LanguageLists ==
    { << <<"e", "n">>, <<"f", "r">> >>,
      << <<"f", "r">>, <<"e", "n">> >>,
      << <<"d", "e">>, <<"e", "n">> >> }

\* the response body served at each URL
ResponseText(url) ==
    IF url = <<"u", "1">> THEN <<"W", "E", "B", "V", "T", "T", "\n", "H", "i">>
    ELSE IF url = <<"u", "2">> THEN <<"Y", "o">>
    ELSE <<"?">>

\* what requests.get / raise_for_status does
HttpOutcomes == {"ok", "Timeout", "HTTPError", "ConnectionError"}

-----------------------------------------------------------------------------
(* download_subtitle *)

\* `if x:` on a str or None
Truthy(s) == s # None /\ s # <<>>

\* item.get("data", {}).get(...) raises AttributeError when data is no dict
DataRaises(item) == ~IsDict(Get(item, "data", EmptyDict))

\* video_content.get(...) and cla_info.get(...) raise AttributeError, inside the
\* try of download_subtitle, when `video` (or, for captions, `claInfo`) is no dict
MediaRaises(item) ==
    LET video_content == Get(Get(item, "data", EmptyDict), "video", EmptyDict)
    IN  \/ ~IsDict(video_content)
        \/ /\ variant = "app" /\ find_type = "caption"
           /\ ~IsDict(Get(video_content, "claInfo", EmptyDict))

video_id(item) ==
    LET data_content == Get(item, "data", EmptyDict)
    IN  Get(data_content, "item_id", Get(data_content, "id", "unknown"))

get_media_info(video_content, ft) ==
    IF ft = "caption"
    THEN Get(Get(video_content, "claInfo", EmptyDict), "captionInfos", <<>>)
    ELSE Get(video_content, "subtitleInfos", <<>>)

media_infos(item) ==
    LET video_content == Get(Get(item, "data", EmptyDict), "video", EmptyDict)
    IN  IF variant = "app"
        THEN get_media_info(video_content, find_type)
        ELSE Get(video_content, "subtitleInfos", <<>>)

\* the filter of the `matching` list comprehension
Matches(m, lang) ==
    /\ IF variant = "app"
       THEN Lower(Get(m, "LanguageCodeName", <<>>)) = Lower(lang)
       ELSE StartsWith(Lower(Get(m, "LanguageCodeName", <<>>)), lang)
    /\ Get(m, "Format", "None") = "webvtt"

\* faulty variant: the newest matching descriptor comes first
matching_NewestFirst(item, lang) ==
    LET mt == SelectSeq(media_infos(item), LAMBDA m : Matches(m, lang))
    IN  [j \in 1..Len(mt) |-> mt[Len(mt) + 1 - j]]

matching(item, lang) == SelectSeq(media_infos(item), LAMBDA m : Matches(m, lang))

\* faulty variant: a descriptor that expires now is still fetched
NotExpired_Inclusive(url_expire, t) == IntOf(url_expire) >= t

\* `int(url_expire) > time.time()`, once int() has succeeded
NotExpired(url_expire, t) == IntOf(url_expire) > t

\* str(e)
StrOfException(e) ==
    CASE e = "Timeout"         -> <<"Read timed out. (read timeout=10)">>
      [] e = "HTTPError"       -> <<"404 Client Error: Not Found for url">>
      [] e = "ConnectionError" -> <<"Connection aborted.">>
      [] e = "ValueError"      -> <<"invalid literal for int() with base 10">>
      [] OTHER                 -> <<"'NoneType' object has no attribute 'get'">>

-----------------------------------------------------------------------------
(* parse_webvtt *)

\* the line boundaries of str.splitlines() that occur in the texts: "\n", "\r"
\* and the pair "\r\n"
IsBoundary(c) == c \in {"\n", "\r"}

\* str.splitlines(): no line for the empty text or after a final boundary
RECURSIVE splitlines(_)
splitlines(s) ==
    IF s = <<>> THEN <<>>
    ELSE IF \A i \in 1..Len(s) : ~IsBoundary(s[i]) THEN <<s>>
    ELSE LET p == CHOOSE i \in 1..Len(s) :
                      IsBoundary(s[i]) /\ \A j \in 1..(i - 1) : ~IsBoundary(s[j])
             q == IF s[p] = "\r" /\ p < Len(s) /\ s[p + 1] = "\n" THEN p + 1 ELSE p
         IN  <<SubSeq(s, 1, p - 1)>> \o splitlines(SubSeq(s, q + 1, Len(s)))

\* sep.join(lines)
RECURSIVE join(_, _)
join(sep, lines) ==
    IF lines = <<>> THEN <<>>
    ELSE IF Len(lines) = 1 THEN lines[1]
    ELSE lines[1] \o sep \o join(sep, Tail(lines))

\* ^\d{2}:\d{2}:\d{2}\.\d{3} --> \d{2}:\d{2}:\d{2}\.\d{3}$ ; "d" stands for \d
TimecodePattern ==
    <<"d", "d", ":", "d", "d", ":", "d", "d", ".", "d", "d", "d",
      " ", "-", "-", ">", " ",
      "d", "d", ":", "d", "d", ":", "d", "d", ".", "d", "d", "d">>

IsTimecodeLine(line) ==
    /\ Len(line) = Len(TimecodePattern)
    /\ \A i \in 1..Len(line) :
          IF TimecodePattern[i] = "d" THEN IsDigit(line[i])
          ELSE line[i] = TimecodePattern[i]

\* str.strip(), for the white space that occurs inside a line
RECURSIVE str_strip(_)
str_strip(line) ==
    IF line = <<>> THEN line
    ELSE IF Head(line) \in {" ", "\t"} THEN str_strip(Tail(line))
    ELSE IF line[Len(line)] \in {" ", "\t"}
         THEN str_strip(SubSeq(line, 1, Len(line) - 1))
    ELSE line

\* line.strip() == ""
IsBlank(line) == str_strip(line) = <<>>

\* faulty variant: the header line is kept
KeepsLine_Header(line) ==
    /\ ~IsTimecodeLine(line)
    /\ ~IsBlank(line)

KeepsLine(line) ==
    /\ ~IsTimecodeLine(line)
    /\ ~StartsWith(line, <<"W", "E", "B", "V", "T", "T">>)
    /\ ~IsBlank(line)

\* faulty variant: the surviving lines are stored stripped of white space
parse_webvtt_StripsLines(content, strip) ==
    IF ~strip THEN content
    ELSE LET kept == SelectSeq(splitlines(content), KeepsLine)
         IN  join(<<"\n">>, [j \in 1..Len(kept) |-> str_strip(kept[j])])

parse_webvtt(content, strip) ==
    IF ~strip THEN content
    ELSE join(<<"\n">>, SelectSeq(splitlines(content), KeepsLine))

-----------------------------------------------------------------------------
(* download_subtitle, continued *)

Result(vid, lang, success, reason, content, extension) ==
    IF variant = "app"
    THEN [id |-> vid, language |-> lang, success |-> success, reason |-> reason,
          content |-> content, extension |-> extension]
    ELSE [id |-> vid, language |-> lang, success |-> success, reason |-> reason,
          content |-> content]

\* the `content` of a failed Result: "" if append_mode else None in V0.2
FailureContent ==
    IF variant = "cli_v02" /\ save_format = "text" THEN None ELSE <<>>

\* what the `except` clauses around requests.get leave in `results`
TransportFailure(vid, lang, e) ==
    IF variant = "app"
    THEN <<>>
    ELSE << Result(vid, lang, FALSE, StrOfException(e), FailureContent, None) >>

\* faulty variant: the file keeps the container's extension
extension_AlwaysVtt == <<"v", "t", "t">>

\* extension = "txt" if strip_timestamps else "vtt"
extension == IF strip_timestamps THEN <<"t", "x", "t">> ELSE <<"v", "t", "t">>

Success(vid, lang, url) ==
    << Result(vid, lang, TRUE, None,
              IF variant # "app" /\ save_format = "text"
              THEN None ELSE parse_webvtt(ResponseText(url), strip_timestamps),
              extension) >>

\* text mode of the scripts: the unit writes {video_id}_{language}.{extension}
\* before it appends its Result; the grouping directory is not part of the name
Written(vid, lang, url) ==
    IF variant # "app" /\ save_format = "text"
    THEN << [filename |-> <<vid, lang, extension>>,
             content  |-> parse_webvtt(ResponseText(url), strip_timestamps)] >>
    ELSE <<>>

ExpiredReason ==
    IF variant = "app" THEN <<"Expired or invalid URL">> ELSE <<"Expired URL">>

Expired(vid, lang) == << Result(vid, lang, FALSE, ExpiredReason, FailureContent, None) >>

\* faulty variant: the failure carries no reason
Unavailable_NoReason(vid, lang) ==
    << Result(vid, lang, FALSE, None, FailureContent, None) >>

Unavailable(vid, lang) ==
    << Result(vid, lang, FALSE, <<"Language unavailable">>, FailureContent, None) >>

\* the outer `except Exception` of download_subtitle: what `results` becomes
OnException(item, res, e) ==
    LET err == Result(video_id(item), None, FALSE, StrOfException(e), FailureContent, None)
    IN  IF variant = "app" THEN Append(res, err) ELSE <<err>>

\* faulty variant: a failed GET is retried once
GetsIssued_Retry(http) == IF http = "ok" THEN 1 ELSE 2

\* the GETs one unit issues for a fetchable descriptor: requests.get is
\* called once, inside the try, whatever its outcome
GetsIssued(http) == 1

\* One pass of the `for lang in languages` loop body, at clock value t, with
\* http the outcome of the GET if one is issued.
\*   stage: what the unit did; gets: the HTTP GETs it issued;
\*   add: what it appends to `results`; write: the files it writes
UnitStep(item, lang, t, http) ==
    LET vid == video_id(item)
        mt  == matching(item, lang)
    IN  IF mt = <<>>
        THEN [stage |-> "unavailable", gets |-> 0, add |-> Unavailable(vid, lang),
              write |-> <<>>]
        ELSE LET media_info == mt[1]
                 url        == Get(media_info, "Url", None)
                 url_expire == Get(media_info, "UrlExpire", <<"0">>)
             IN  IF ~Truthy(url)
                 THEN [stage |-> "expired", gets |-> 0, add |-> Expired(vid, lang),
                       write |-> <<>>]
                 ELSE IF ~IsNumeric(url_expire)
                 THEN [stage |-> "ValueError", gets |-> 0, add |-> <<>>, write |-> <<>>]
                 ELSE IF ~NotExpired(url_expire, t)
                 THEN [stage |-> "expired", gets |-> 0, add |-> Expired(vid, lang),
                       write |-> <<>>]
                 ELSE IF http = "ok"
                 THEN [stage |-> "ok", gets |-> GetsIssued(http),
                       add |-> Success(vid, lang, url), write |-> Written(vid, lang, url)]
                 ELSE [stage |-> http, gets |-> GetsIssued(http),
                       add |-> TransportFailure(vid, lang, http), write |-> <<>>]

-----------------------------------------------------------------------------
(* scrape_subtitles: scheduling *)

\* its[:n], for n >= 0
Truncate(its, n) == SubSeq(its, 1, IF n < Len(its) THEN n ELSE Len(its))

\* faulty variant: the limit is not applied
to_process_Everything == items

\* items[:num_videos]
to_process == Truncate(items, num_videos)

N == Len(to_process)

L == Len(languages)

Active(i) == task[i] \in {"pending", "running"}

Running == {i \in 1..N : task[i] = "running"}

\* faulty variant: the sequential loop does not wait for the call before
MayStart_NoWait(i) ==
    /\ task[i] = "pending"
    /\ \A j \in 1..(i - 1) : task[j] # "pending"
    /\ IF threads > 1
       THEN Cardinality(Running) < threads /\ phase \in {"download", "unwinding"}
       ELSE phase = "download"

\* faulty variant: the pool starts a call whether or not a worker is free
MayStart_Unbounded(i) ==
    /\ task[i] = "pending"
    /\ \A j \in 1..(i - 1) : task[j] # "pending"
    /\ IF threads > 1
       THEN phase \in {"download", "unwinding"}
       ELSE phase = "download" /\ \A j \in 1..(i - 1) : task[j] = "collected"

\* a worker of the pool is free / the sequential loop has reached record i
MayStart(i) ==
    /\ task[i] = "pending"
    /\ \A j \in 1..(i - 1) : task[j] # "pending"
    /\ IF threads > 1
       THEN Cardinality(Running) < threads /\ phase \in {"download", "unwinding"}
       ELSE phase = "download" /\ \A j \in 1..(i - 1) : task[j] = "collected"

\* whether a progress consumer displays the count: tqdm(disable=verbose) in the
\* scripts; main always hands the app's containers to scrape_subtitles
Attached == variant = "app" \/ ~verbose

\* faulty variant: the count advances by the number of Results of the call
Advance_PerResult(count, res) == IF Attached THEN count + Len(res) ELSE count

\* progress.update(1), a no-op on a disabled bar / done_count += 1, once per
\* call taken from the pool or finished by the sequential loop
Advance(count, res) == IF Attached THEN count + 1 ELSE count

-----------------------------------------------------------------------------
(* scrape_subtitles: aggregation *)

\* An insertion-ordered dict with str keys is a sequence of <<key, value>>.
DictHas(od, key) == \E i \in 1..Len(od) : od[i][1] = key

DictGet(od, key, default) ==
    IF DictHas(od, key)
    THEN od[CHOOSE i \in 1..Len(od) : od[i][1] = key][2]
    ELSE default

\* od[key] = value
DictSet(od, key, value) ==
    IF DictHas(od, key)
    THEN [i \in 1..Len(od) |-> IF od[i][1] = key THEN <<key, value>> ELSE od[i]]
    ELSE Append(od, <<key, value>>)

\* faulty variant: the assignment replaces the dict by one holding only the key
Put_Alone(d, key, value) == [x \in {key} |-> value]

\* d[key] = value on a dict with fixed-name keys
Put(d, key, value) ==
    [x \in DOMAIN d \cup {key} |-> IF x = key THEN value ELSE d[x]]

\* whether the loop that fills video_map stores a Result
Stored(r) ==
    /\ r.language # None
    /\ (variant = "app" /\ save_format = "ndjson") => r.success

\* video_map.get(vid, {}) after the loop over rs: language -> text
RECURSIVE video_map(_, _)
video_map(rs, vid) ==
    IF rs = <<>> THEN <<>>
    ELSE LET r    == rs[Len(rs)]
             rest == video_map(SubSeq(rs, 1, Len(rs) - 1), vid)
         IN  IF r.id = vid /\ Stored(r)
             THEN DictSet(rest, r.language, IF r.success THEN r.content ELSE <<>>)
             ELSE rest

RECURSIVE ensure_nested_path(_, _)
ensure_nested_path(d, keys) ==
    IF keys = <<>> THEN d
    ELSE LET key     == Head(keys)
             current == IF key \in DOMAIN d /\ IsDict(d[key]) THEN d[key] ELSE EmptyDict
         IN  Put(d, key, ensure_nested_path(current, Tail(keys)))

RECURSIVE DictUpdate(_, _)
DictUpdate(od, sub_map) ==
    IF sub_map = <<>> THEN od
    ELSE DictUpdate(DictSet(od, sub_map[1][1], sub_map[1][2]), Tail(sub_map))

\* for lang, cont in sub_map.items(): item[k1][k2]...[lang] = cont
RECURSIVE InsertAt(_, _, _)
InsertAt(d, keys, sub_map) ==
    IF keys = <<>> THEN DictUpdate(d, sub_map)
    ELSE Put(d, Head(keys), InsertAt(d[Head(keys)], Tail(keys), sub_map))

InsertPath ==
    IF variant = "app" /\ find_type = "caption"
    THEN <<"data", "video", "claInfo", "caption">>
    ELSE <<"data", "video", "subtitle">>

\* one line of the merged NDJSON
NdjsonRecord(item, rs) ==
    InsertAt(ensure_nested_path(item, InsertPath), InsertPath,
             video_map(rs, video_id(item)))

\* faulty variant: one line per collected Result instead of one per input record
NdjsonOutput_PerResult(its, rs) ==
    [kind |-> "ndjson",
     lines |-> [j \in 1..Len(rs) |-> NdjsonRecord(its[1], rs)]]

NdjsonOutput(its, rs) ==
    [kind |-> "ndjson", lines |-> [j \in 1..Len(its) |-> NdjsonRecord(its[j], rs)]]

CsvHeader == <<"video_id">> \o languages

CsvRow(item, rs) ==
    LET vid == video_id(item)
    IN  <<vid>> \o [k \in 1..L |-> DictGet(video_map(rs, vid), languages[k], <<>>)]

\* faulty variant: the rows follow the collection order of the calls
CsvOutput_ByArrival(its, rs) ==
    [kind |-> "csv",
     rows |-> <<CsvHeader>> \o
              [j \in 1..Len(its) |->
                  CsvRow(its[IF j <= Len(arrival) THEN arrival[j] ELSE j], rs)]]

CsvOutput(its, rs) ==
    [kind |-> "csv",
     rows |-> <<CsvHeader>> \o [j \in 1..Len(its) |-> CsvRow(its[j], rs)]]

\* app.py: the ZIP archive of text mode
ZipOutput(rs) ==
    LET ok == SelectSeq(rs, LAMBDA r : r.success)
    IN  [kind    |-> "zip",
         entries |-> [j \in 1..Len(ok) |->
                        [filename |-> <<ok[j].id, ok[j].language, ok[j].extension>>,
                         content  |-> ok[j].content]]]

Aggregated(its, rs) ==
    IF save_format = "ndjson" THEN NdjsonOutput(its, rs)
    ELSE IF save_format = "csv" THEN CsvOutput(its, rs)
    ELSE IF variant = "app" THEN ZipOutput(rs)
    ELSE NoOutput

generate_summary_report(rs) ==
    LET successful == SelectSeq(rs, LAMBDA r : r.success)
        failed     == SelectSeq(rs, LAMBDA r : ~r.success)
    IN  [kind       |-> "summary",
         total      |-> Len(rs),
         successful |-> Len(successful),
         failed     |-> Len(failed),
         ledger     |-> [j \in 1..Len(failed) |->
                            <<failed[j].id, failed[j].language, failed[j].reason>>]]

-----------------------------------------------------------------------------
(* rate_limit: the wrapper's state when it is not under study *)

Workers == 1..MaxThreads

\* a worker thread outside wrapper
Outside == [pc |-> "outside", now |-> 0, tmp |-> 0, wake |-> 0, arg |-> 0]

NoLimiter ==
    /\ last_reset = 0 /\ calls_made = 0 /\ clock = 0 /\ pending_calls = 0
    /\ worker = [w \in Workers |-> Outside]
    /\ window_calls = 0

-----------------------------------------------------------------------------
(* The state machine *)

Init ==
    /\ variant \in {"standalone", "cli_v02", "app"}
    /\ find_type \in (IF variant = "app" THEN {"subtitle", "caption"} ELSE {"subtitle"})
    /\ infile \in {Items(ds) : ds \in ItemLists}
    /\ languages \in LanguageLists
    /\ num_videos \in (IF Len(infile) > MaxRecords
                        THEN {Len(infile)}
                        ELSE {MaxRecords - 1, MaxRecords})
    /\ threads \in 1..MaxThreads
    /\ save_format \in (IF variant = "cli_v02" THEN {"text", "ndjson"}
                         ELSE {"text", "ndjson", "csv"})
    /\ strip_timestamps \in BOOLEAN
    /\ verbose \in (IF variant = "app" THEN {FALSE} ELSE BOOLEAN)
    /\ now = 0
    /\ phase = "load"
    /\ items = <<>>
    /\ task = <<>>
    /\ lang_pos = <<>>
    /\ results = <<>>
    /\ unit_log = <<>>
    /\ requests = <<>>
    /\ files = <<>>
    /\ all_results = <<>>
    /\ done_count = 0
    /\ arrival = <<>>
    /\ output = NoOutput
    /\ report = NoOutput
    /\ text = <<>>
    /\ normalized = <<>>
    /\ passes = 0
    /\ NoLimiter

\* json.loads(line) raises on a line that is not JSON
IsJson(line) == line # Malformed

\* the input is read: items = [json.loads(line) for line in infile]; the
\* scripts let the JSONDecodeError end the run, the app shows it and stops,
\* as it does when no record was read
Load ==
    /\ phase = "load"
    /\ UNCHANGED <<apart, settings, now, all_results, arrival, done_count, output, report>>
    /\ IF (\E j \in 1..Len(infile) : ~IsJson(infile[j]))
          \/ (variant = "app" /\ infile = <<>>)
       THEN /\ phase' = "aborted"
            /\ UNCHANGED <<items, task, lang_pos, results, unit_log, requests, files>>
       ELSE /\ phase' = "download"
            /\ items' = infile
            /\ task' = [i \in 1..N' |-> "pending"]
            /\ lang_pos' = [i \in 1..N' |-> 1]
            /\ results' = [i \in 1..N' |-> <<>>]
            /\ unit_log' = [i \in 1..N' |->
                              [k \in 1..L |-> [stage |-> "none", at |-> 0]]]
            /\ requests' = [i \in 1..N' |-> [k \in 1..L |-> 0]]
            /\ files' = [i \in 1..N' |-> [k \in 1..L |-> <<>>]]

\* time passes while calls are still to run
Tick ==
    /\ phase \in {"download", "unwinding"}
    /\ \E i \in 1..N : Active(i)
    /\ now < MaxTime
    /\ now' = now + 1
    /\ UNCHANGED <<apart, inputs, phase, task, lang_pos, results, unit_log, requests, files,
                   all_results, arrival, done_count, output, report>>

\* a worker (or the sequential loop) calls download_subtitle for record i:
\* the statements before the language loop
Start(i) ==
    /\ MayStart(i)
    /\ task' = [task EXCEPT ![i] =
                  IF DataRaises(to_process[i]) THEN "raised"
                  ELSE IF MediaRaises(to_process[i]) \/ L = 0 THEN "returned"
                  ELSE "running"]
    /\ results' = [results EXCEPT ![i] =
                     IF ~DataRaises(to_process[i]) /\ MediaRaises(to_process[i])
                     THEN OnException(to_process[i], @, "AttributeError")
                     ELSE @]
    /\ UNCHANGED <<apart, inputs, now, phase, lang_pos, unit_log, requests, files,
                   all_results, arrival, done_count, output, report>>

\* one pass of the language loop of record i's call
Unit(i) ==
    /\ task[i] = "running"
    /\ phase \in {"download", "unwinding"}
    /\ \E http \in HttpOutcomes :
         LET k == lang_pos[i]
             u == UnitStep(to_process[i], languages[k], now, http)
         IN  /\ unit_log' = [unit_log EXCEPT ![i][k] = [stage |-> u.stage, at |-> now]]
             /\ requests' = [requests EXCEPT ![i][k] = @ + u.gets]
             /\ files' = [files EXCEPT ![i][k] = @ \o u.write]
             /\ IF u.stage = "ValueError"
                THEN /\ results' = [results EXCEPT ![i] =
                                      OnException(to_process[i], @, "ValueError")]
                     /\ task' = [task EXCEPT ![i] = "returned"]
                     /\ UNCHANGED lang_pos
                ELSE /\ results' = [results EXCEPT ![i] = @ \o u.add]
                     /\ lang_pos' = [lang_pos EXCEPT ![i] = k + 1]
                     /\ task' = [task EXCEPT ![i] = IF k = L THEN "returned" ELSE "running"]
    /\ UNCHANGED <<apart, inputs, now, phase, all_results, arrival, done_count, output, report>>

\* the main thread takes a finished call: future.result(), all_results.extend
Collect(i) ==
    /\ phase = "download"
    /\ task[i] \in {"returned", "raised"}
    /\ IF task[i] = "raised"
       THEN /\ phase' = IF threads > 1 THEN "unwinding" ELSE "crashed"
            /\ UNCHANGED <<task, all_results, arrival, done_count>>
       ELSE /\ all_results' = all_results \o results[i]
            /\ arrival' = Append(arrival, i)
            /\ done_count' = Advance(done_count, results[i])
            /\ task' = [task EXCEPT ![i] = "collected"]
            /\ UNCHANGED phase
    /\ UNCHANGED <<apart, inputs, now, lang_pos, results, unit_log, requests, files,
                   output, report>>

\* the exception leaves the `with ThreadPoolExecutor` block once the pool is idle
Unwind ==
    /\ phase = "unwinding"
    /\ \A i \in 1..N : ~Active(i)
    /\ phase' = "crashed"
    /\ UNCHANGED <<apart, inputs, now, task, lang_pos, results, unit_log, requests, files,
                   all_results, arrival, done_count, output, report>>

\* the output is built and the report written
Aggregate ==
    /\ phase = "download"
    /\ \A i \in 1..N : task[i] = "collected"
    /\ IF variant = "app" /\ N = 0
       THEN /\ report' = [kind |-> "message", text |-> "No videos to process."]
            /\ UNCHANGED output
       ELSE /\ output' = Aggregated(to_process, all_results)
            /\ report' = generate_summary_report(all_results)
    /\ phase' = "done"
    /\ UNCHANGED <<apart, inputs, now, task, lang_pos, results, unit_log, requests, files,
                   all_results, arrival, done_count>>

Next ==
    \/ Load
    \/ Tick
    \/ \E i \in 1..N : Start(i)
    \/ \E i \in 1..N : Unit(i)
    \/ \E i \in 1..N : Collect(i)
    \/ Unwind
    \/ Aggregate

Spec == Init /\ [][Next]_vars

-----------------------------------------------------------------------------
(* parse_webvtt applied on its own *)

\* no scraping run is in progress
NoRun ==
    /\ variant = "app" /\ find_type = "subtitle" /\ save_format = "text"
    /\ verbose = FALSE /\ num_videos = 1 /\ threads = 1 /\ now = 0
    /\ phase = "idle"
    /\ infile = <<>> /\ items = <<>> /\ languages = <<>>
    /\ task = <<>> /\ lang_pos = <<>> /\ results = <<>> /\ unit_log = <<>>
    /\ requests = <<>> /\ files = <<>> /\ all_results = <<>> /\ arrival = <<>>
    /\ done_count = 0 /\ output = NoOutput /\ report = NoOutput

TimecodeLine ==
    <<"0", "0", ":", "0", "0", ":", "0", "1", ".", "0", "0", "0",
      " ", "-", "-", ">", " ",
      "0", "0", ":", "0", "0", ":", "0", "2", ".", "5", "0", "0">>

\* what the texts are made of
Pieces ==
    { TimecodeLine, <<"W", "E", "B", "V", "T", "T">>, <<"H", "i">>, <<" ">>,
      <<"\n">>, <<"\r">> }

RECURSIVE Concat(_)
Concat(ps) == IF ps = <<>> THEN <<>> ELSE Head(ps) \o Concat(Tail(ps))

Texts == { Concat(ps) : ps \in UNION { [1..n -> Pieces] : n \in 0..MaxPieces } }

InitNorm ==
    /\ NoRun
    /\ strip_timestamps \in BOOLEAN
    /\ text \in Texts
    /\ normalized = text
    /\ passes = 0
    /\ NoLimiter

\* normalized = parse_webvtt(normalized, strip_timestamps)
Normalize ==
    /\ passes < MaxPasses
    /\ normalized' = parse_webvtt(normalized, strip_timestamps)
    /\ passes' = passes + 1
    /\ UNCHANGED <<run_vars, limiter_vars, text>>

NextNorm == Normalize

SpecNorm == InitNorm /\ [][NextNorm]_vars

-----------------------------------------------------------------------------
(* rate_limit: the wrapper of app.py, called by the workers of the pool without
   a lock; a step is one read or one write of the closure's variables *)

InitLimiter ==
    /\ NoRun
    /\ strip_timestamps = FALSE
    /\ text = <<>> /\ normalized = <<>> /\ passes = 0
    /\ last_reset = 0
    /\ calls_made = 0
    /\ clock = 0
    /\ pending_calls = MaxCalls
    /\ worker = [w \in Workers |-> Outside]
    /\ window_calls = 0

At(w, pc) == worker[w].pc = pc

Goto(w, pc) == worker' = [worker EXCEPT ![w].pc = pc]

\* time passes; a sleeping worker is always waited for
TickClock ==
    /\ \/ clock < MaxClock
       \/ \E w \in Workers : At(w, "sleeping") /\ worker[w].wake > clock
    /\ clock' = clock + 1
    /\ UNCHANGED <<run_vars, norm_vars, last_reset, calls_made, pending_calls, worker,
                   window_calls>>

\* a free worker takes the next submitted call and enters wrapper
Enter(w) ==
    /\ At(w, "outside")
    /\ pending_calls > 0
    /\ pending_calls' = pending_calls - 1
    /\ Goto(w, "read_time")
    /\ UNCHANGED <<run_vars, norm_vars, last_reset, calls_made, clock, window_calls>>

\* now = time.time()
ReadTime(w) ==
    /\ At(w, "read_time")
    /\ worker' = [worker EXCEPT ![w].now = clock, ![w].pc = "check_window"]
    /\ UNCHANGED <<run_vars, norm_vars, last_reset, calls_made, clock, pending_calls,
                   window_calls>>

\* if now - last_reset > period:
CheckWindow(w) ==
    /\ At(w, "check_window")
    /\ Goto(w, IF worker[w].now - last_reset > RateLimitPeriod
               THEN "zero_calls" ELSE "check_calls")
    /\ UNCHANGED <<run_vars, norm_vars, last_reset, calls_made, clock, pending_calls,
                   window_calls>>

\* calls_made = 0
ZeroCalls(w) ==
    /\ At(w, "zero_calls")
    /\ calls_made' = 0
    /\ window_calls' = 0
    /\ Goto(w, "set_reset")
    /\ UNCHANGED <<run_vars, norm_vars, last_reset, clock, pending_calls>>

\* last_reset = now
SetReset(w) ==
    /\ At(w, "set_reset")
    /\ last_reset' = worker[w].now
    /\ Goto(w, "check_calls")
    /\ UNCHANGED <<run_vars, norm_vars, calls_made, clock, pending_calls, window_calls>>

\* if calls_made >= calls:
CheckCalls(w) ==
    /\ At(w, "check_calls")
    /\ Goto(w, IF calls_made >= RateLimitCalls THEN "sleep" ELSE "load_calls")
    /\ UNCHANGED <<run_vars, norm_vars, last_reset, calls_made, clock, pending_calls,
                   window_calls>>

\* sleep(period - (now - last_reset)): time.sleep raises ValueError on a negative
\* argument, which ends the call
Sleep(w) ==
    /\ At(w, "sleep")
    /\ LET arg == RateLimitPeriod - (worker[w].now - last_reset)
       IN  worker' = [worker EXCEPT ![w].arg = arg,
                                    ![w].wake = clock + arg,
                                    ![w].pc = IF arg < 0 THEN "outside" ELSE "sleeping"]
    /\ UNCHANGED <<run_vars, norm_vars, last_reset, calls_made, clock, pending_calls,
                   window_calls>>

\* sleep returns; calls_made = 0
ZeroAfterSleep(w) ==
    /\ At(w, "sleeping")
    /\ clock >= worker[w].wake
    /\ calls_made' = 0
    /\ window_calls' = 0
    /\ Goto(w, "reset_after_sleep")
    /\ UNCHANGED <<run_vars, norm_vars, last_reset, clock, pending_calls>>

\* last_reset = time.time()
ResetAfterSleep(w) ==
    /\ At(w, "reset_after_sleep")
    /\ last_reset' = clock
    /\ Goto(w, "load_calls")
    /\ UNCHANGED <<run_vars, norm_vars, calls_made, clock, pending_calls, window_calls>>

\* calls_made += 1, the load
LoadCalls(w) ==
    /\ At(w, "load_calls")
    /\ worker' = [worker EXCEPT ![w].tmp = calls_made, ![w].pc = "store_calls"]
    /\ UNCHANGED <<run_vars, norm_vars, last_reset, calls_made, clock, pending_calls,
                   window_calls>>

\* calls_made += 1, the store; return func(*args, **kwargs): the call is admitted
StoreCalls(w) ==
    /\ At(w, "store_calls")
    /\ calls_made' = worker[w].tmp + 1
    /\ window_calls' = window_calls + 1
    /\ Goto(w, "outside")
    /\ UNCHANGED <<run_vars, norm_vars, last_reset, clock, pending_calls>>

NextLimiter ==
    \/ TickClock
    \/ \E w \in Workers : Enter(w)
    \/ \E w \in Workers : ReadTime(w)
    \/ \E w \in Workers : CheckWindow(w)
    \/ \E w \in Workers : ZeroCalls(w)
    \/ \E w \in Workers : SetReset(w)
    \/ \E w \in Workers : CheckCalls(w)
    \/ \E w \in Workers : Sleep(w)
    \/ \E w \in Workers : ZeroAfterSleep(w)
    \/ \E w \in Workers : ResetAfterSleep(w)
    \/ \E w \in Workers : LoadCalls(w)
    \/ \E w \in Workers : StoreCalls(w)

SpecLimiter == InitLimiter /\ [][NextLimiter]_vars

\* the main thread and the workers keep being scheduled, and requests.get
\* returns or raises (timeout=10): a step that is possible is eventually taken
FairSpec == Spec /\ WF_vars(Next)

-----------------------------------------------------------------------------
(* Properties *)

TransportFailures == HttpOutcomes \ {"ok"}

\* the Results of record i's call that carry language k
ResultsFor(i, k) ==
    {j \in 1..Len(results[i]) : results[i][j].language = languages[k]}

\* the result list the run would collect if the calls arrived in input order
RECURSIVE InInputOrder(_)
InInputOrder(n) == IF n = 0 THEN <<>> ELSE InInputOrder(n - 1) \o results[n]

\* C1: when the run has finished, the collected result list holds exactly
\* min(len(records), limit) * len(languages) Results, exactly one for every
\* (record, requested language) pair.
C1_OneResultPerUnit ==
    phase = "done" =>
        /\ Len(all_results) = N * L
        /\ \A i \in 1..N : \A k \in 1..L : Cardinality(ResultsFor(i, k)) = 1

\* C2: a unit whose HTTP GET failed leaves exactly one failure Result for its
\* (record, language), with a reason that is not None, and units that failed
\* in different families (timeout, HTTP status, other) carry different reasons.
C2_TransportFailureRecorded ==
    \A i \in 1..N : \A k \in 1..L :
        unit_log[i][k].stage \in TransportFailures =>
            /\ Cardinality(ResultsFor(i, k)) = 1
            /\ \A j \in ResultsFor(i, k) :
                 /\ ~results[i][j].success
                 /\ results[i][j].reason # None
                 /\ \A i2 \in 1..N : \A k2 \in 1..L : \A j2 \in ResultsFor(i2, k2) :
                      (/\ unit_log[i2][k2].stage \in TransportFailures
                       /\ unit_log[i2][k2].stage # unit_log[i][k].stage)
                      => results[i2][j2].reason # results[i][j].reason

\* C3: no failure of a unit leaves download_subtitle or the scheduler: no call
\* ends by raising and the run is never abandoned.
C3_NoFailureEscapes ==
    /\ \A i \in 1..N : task[i] # "raised"
    /\ phase \notin {"unwinding", "crashed"}

\* C4: once a record's call has returned, every requested language of the
\* record was attempted, and every Result a unit produced is still in the
\* call's result list, whatever happened to the record's other units.
C4_UnitsIndependent ==
    \A i \in 1..N :
        task[i] \in {"returned", "collected"} =>
            \A k \in 1..L :
                /\ unit_log[i][k].stage # "none"
                /\ unit_log[i][k].stage \in {"unavailable", "expired", "ok"}
                   => ResultsFor(i, k) # {}

\* C5: the merged-record and the tabular artifact do not depend on the order
\* in which the calls were collected: they equal the artifact built from the
\* same per-unit Results taken in input order.
C5_OutputIndependentOfArrival ==
    (phase = "done" /\ save_format \in {"ndjson", "csv"} /\ N > 0) =>
        output = Aggregated(to_process, InInputOrder(N))

UnitFailed(i, k) ==
    unit_log[i][k].stage \in {"unavailable", "expired", "ValueError"} \cup TransportFailures

\* d[k1][k2]..., for a path that exists
RECURSIVE GetPath(_, _)
GetPath(d, keys) == IF keys = <<>> THEN d ELSE GetPath(d[Head(keys)], Tail(keys))

OutputLines == IF output.kind = "ndjson" THEN output.lines ELSE <<>>

\* C6: in merged-record mode the finished run has emitted exactly one record
\* per record of the truncated input, the j-th emitted record being the j-th
\* input record, whatever the order of collection.
C6_OneRecordPerInput ==
    (phase = "done" /\ save_format = "ndjson") =>
        /\ Len(OutputLines) = N
        /\ \A j \in 1..N : OutputLines[j].line = to_process[j].line

C6_Witness ==
    /\ phase = "done" /\ save_format = "ndjson"
    /\ N = 2 /\ arrival = <<2, 1>>

\* C7: in tabular mode the finished run has emitted the header
\* [video_id, languages in request order] and then one row per record of the
\* truncated input, in input order, each with one cell per requested language.
C7_TableShape ==
    (phase = "done" /\ save_format = "csv") =>
        /\ output.kind = "csv"
        /\ output.rows[1] = <<"video_id">> \o languages
        /\ Len(output.rows) = N + 1
        /\ \A j \in 1..N :
             /\ Len(output.rows[j + 1]) = L + 1
             /\ output.rows[j + 1][1] = video_id(to_process[j])

C7_Witness ==
    /\ phase = "done" /\ save_format = "csv"
    /\ N = 2 /\ arrival = <<2, 1>>
    /\ video_id(to_process[1]) # video_id(to_process[2])

\* C8: in merged-record mode every emitted record carries, for every requested
\* language whose unit failed, that language as a key of the inserted map with
\* the empty string as its value.
C8_FailedLanguageKeptEmpty ==
    (phase = "done" /\ save_format = "ndjson" /\ output.kind = "ndjson") =>
        \A j \in 1..N : \A k \in 1..L :
            UnitFailed(j, k) =>
                LET m == GetPath(output.lines[j], InsertPath)
                IN  /\ DictHas(m, languages[k])
                    /\ DictGet(m, languages[k], None) = <<>>

\* whether the first descriptor that matches lang in item has a non-empty URL
\* and an expiry strictly after t
FetchableAt(item, lang, t) ==
    LET mt == matching(item, lang)
    IN  /\ mt # <<>>
        /\ Truthy(Get(mt[1], "Url", None))
        /\ IsNumeric(Get(mt[1], "UrlExpire", <<"0">>))
        /\ IntOf(Get(mt[1], "UrlExpire", <<"0">>)) > t

\* C9: no unit ever issues more than one HTTP GET; a unit that has run issued
\* exactly one if its matched descriptor was fetchable when it was checked and
\* none otherwise (language unavailable, URL empty or expired).
C9_AtMostOneRequest ==
    \A i \in 1..N : \A k \in 1..L :
        /\ requests[i][k] <= 1
        /\ unit_log[i][k].stage # "none" =>
             (requests[i][k] = 1
                <=> FetchableAt(to_process[i], languages[k], unit_log[i][k].at))
        /\ unit_log[i][k].stage \in {"unavailable", "expired"} => requests[i][k] = 0

C9_Witness ==
    \E i \in 1..N : \E k, k2 \in 1..L :
        /\ unit_log[i][k].stage \in TransportFailures
        /\ requests[i][k] = 1
        /\ unit_log[i][k2].stage = "expired"
        /\ task[i] = "collected"

\* C10: a unit whose matched descriptor was not fetchable issued no GET and
\* left a failure Result whose reason is exactly "Expired or invalid URL".
C10_ExpiredReason ==
    \A i \in 1..N : \A k \in 1..L :
        unit_log[i][k].stage = "expired" =>
            /\ requests[i][k] = 0
            /\ \E j \in ResultsFor(i, k) :
                 /\ ~results[i][j].success
                 /\ results[i][j].reason = <<"Expired or invalid URL">>

\* the descriptor the unit (i, k) works on, when some descriptor matches
Selected(i, k) == matching(to_process[i], languages[k])[1]

HasSelected(i, k) ==
    /\ unit_log[i][k].stage \notin {"none", "unavailable"}
    /\ matching(to_process[i], languages[k]) # <<>>

\* C11: a unit issues its GET only if the descriptor's Url is non-empty and its
\* UrlExpire (0 when absent) is strictly greater than the clock value the unit
\* read; a unit that read a clock value equal to or later than a numeric
\* UrlExpire issued no GET and ended as expired, whatever earlier units did
\* with the same descriptor.
C11_StrictExpiry ==
    \A i \in 1..N : \A k \in 1..L :
        HasSelected(i, k) =>
            LET url == Get(Selected(i, k), "Url", None)
                exp == Get(Selected(i, k), "UrlExpire", <<"0">>)
                t   == unit_log[i][k].at
            IN  /\ requests[i][k] >= 1 =>
                      (url # None /\ url # <<>> /\ IsNumeric(exp) /\ IntOf(exp) > t)
                /\ (IsNumeric(exp) /\ IntOf(exp) <= t) =>
                      (requests[i][k] = 0 /\ unit_log[i][k].stage = "expired")
                /\ (url = None \/ url = <<>>) =>
                      (requests[i][k] = 0 /\ unit_log[i][k].stage = "expired")

\* one descriptor fetched by a unit at clock 0 and found expired by another
\* unit at clock 1 = UrlExpire, and a descriptor without UrlExpire found expired
C11_Witness ==
    /\ \E i, i2 \in 1..N : \E k \in 1..L :
         /\ HasSelected(i, k) /\ HasSelected(i2, k)
         /\ Selected(i, k) = Selected(i2, k)
         /\ Get(Selected(i, k), "UrlExpire", <<"0">>) = <<"1">>
         /\ unit_log[i][k] = [stage |-> "ok", at |-> 0]
         /\ requests[i][k] = 1
         /\ unit_log[i2][k] = [stage |-> "expired", at |-> 1]
    /\ \E i \in 1..N : \E k \in 1..L :
         /\ HasSelected(i, k)
         /\ "UrlExpire" \notin DOMAIN Selected(i, k)
         /\ Truthy(Get(Selected(i, k), "Url", None))
         /\ unit_log[i][k].stage = "expired"

\* positions, in the record's descriptor list, of the WebVTT descriptors whose
\* language code matches lang
Candidates(item, lang) ==
    {j \in 1..Len(media_infos(item)) : Matches(media_infos(item)[j], lang)}

FirstCandidate(item, lang) ==
    media_infos(item)[CHOOSE j \in Candidates(item, lang) :
                         \A j2 \in Candidates(item, lang) : j <= j2]

Fetchable(d, t) ==
    /\ Truthy(Get(d, "Url", None))
    /\ IsNumeric(Get(d, "UrlExpire", <<"0">>))
    /\ IntOf(Get(d, "UrlExpire", <<"0">>)) > t

\* C12: every step of a unit works on the first descriptor, in the record's
\* own order, among those that are WebVTT and match the language: the GET is
\* issued iff that first one is fetchable, whatever later ones are, and a
\* successful Result holds its text; with no such descriptor the step issues
\* no GET and appends one failure Result with reason "Language unavailable".
C12_FirstMatch ==
    [][\A i \in 1..N :
          unit_log'[i] # unit_log[i] =>
            LET k    == lang_pos[i]
                item == to_process[i]
                lang == languages[k]
                last == results'[i][Len(results'[i])]
            IN  IF Candidates(item, lang) = {}
                THEN /\ unit_log'[i][k].stage = "unavailable"
                     /\ requests'[i][k] = requests[i][k]
                     /\ Len(results'[i]) = Len(results[i]) + 1
                     /\ last.language = lang
                     /\ ~last.success
                     /\ last.reason = <<"Language unavailable">>
                ELSE LET d == FirstCandidate(item, lang)
                     IN  /\ unit_log'[i][k].stage # "unavailable"
                         /\ requests'[i][k] = requests[i][k] + 1 <=> Fetchable(d, now)
                         /\ requests'[i][k] = requests[i][k] <=> ~Fetchable(d, now)
                         /\ (unit_log'[i][k].stage = "ok" /\ last.content # None) =>
                               last.content =
                                 parse_webvtt(ResponseText(d.Url), strip_timestamps)
      ]_vars

\* a unit found its first matching descriptor expired while a later matching
\* one was fetchable, and a unit found no matching descriptor
C12_Witness ==
    /\ \E i \in 1..N : \E k \in 1..L :
         /\ unit_log[i][k].stage = "expired"
         /\ requests[i][k] = 0
         /\ Cardinality(Candidates(to_process[i], languages[k])) >= 2
         /\ \E j \in Candidates(to_process[i], languages[k]) :
               Fetchable(media_infos(to_process[i])[j], unit_log[i][k].at)
    /\ \E i \in 1..N : \E k \in 1..L :
         /\ unit_log[i][k].stage = "unavailable"
         /\ Candidates(to_process[i], languages[k]) = {}
         /\ \E j \in ResultsFor(i, k) :
               results[i][j].reason = <<"Language unavailable">>

\* the matching rule per kind: prefix for subtitles, equality for captions,
\* both on lower-cased codes
KindMatch(code, lang) ==
    IF find_type = "caption"
    THEN Lower(code) = Lower(lang)
    ELSE StartsWith(Lower(code), Lower(lang))

\* C13: a unit that ran found its language unavailable exactly when the record
\* has no WebVTT descriptor of the scraped kind whose lower-cased code starts
\* with the requested code (kind subtitle) or equals it (kind caption).
C13_MatchingByKind ==
    \A i \in 1..N : \A k \in 1..L :
        unit_log[i][k].stage # "none" =>
            (unit_log[i][k].stage = "unavailable"
               <=> ~\E j \in 1..Len(media_infos(to_process[i])) :
                      LET m == media_infos(to_process[i])[j]
                      IN  /\ Get(m, "Format", "None") = "webvtt"
                          /\ KindMatch(Get(m, "LanguageCodeName", <<>>), languages[k]))

WellFormed(r) ==
    /\ ~r.success => (r.content \in {<<>>, None} /\ r.reason # None)
    /\ r.success => r.reason = None

\* C14: every Result, in a call's local list and in the collected list, is
\* well formed: a failed one has empty content ("" or None) and a reason that
\* is not None, a successful one has reason None.
C14_ResultsWellFormed ==
    /\ \A i \in 1..N : \A j \in 1..Len(results[i]) : WellFormed(results[i][j])
    /\ \A j \in 1..Len(all_results) : WellFormed(all_results[j])

\* the collected list holds a success, a failure of a unit and the failure
\* left by the handler of an unexpected exception
C14_Witness ==
    /\ phase = "done"
    /\ \E j \in 1..Len(all_results) : all_results[j].success
    /\ \E j \in 1..Len(all_results) :
          ~all_results[j].success /\ all_results[j].language # None
    /\ \E j \in 1..Len(all_results) : all_results[j].language = None

\* the failed Results of rs, in order, as (identity, language, reason)
RECURSIVE FailuresOf(_)
FailuresOf(rs) ==
    IF rs = <<>> THEN <<>>
    ELSE (IF rs[1].success THEN <<>>
          ELSE << <<rs[1].id, rs[1].language, rs[1].reason>> >>)
         \o FailuresOf(Tail(rs))

\* C15: the report of a finished run states a total equal to the number of
\* work units (records processed x requested languages), its total is the sum
\* of its success and failure counts, and its ledger lists the failed Results
\* in the order of the collected list.
C15_ReportCounts ==
    (phase = "done" /\ report.kind = "summary") =>
        /\ report.total = N * L
        /\ report.total = report.successful + report.failed
        /\ report.ledger = FailuresOf(all_results)

\* the text the unit (i, k) fetched, once it has succeeded
FetchedText(i, k) ==
    parse_webvtt(ResponseText(Selected(i, k).Url), strip_timestamps)

\* C16: in the table of a finished run the cell of (record j, language k) is
\* the fetched text when that unit succeeded, the empty string when it failed
\* and the empty string when the collected list has no Result for the
\* record's identity and that language.
C16_CellValues ==
    (phase = "done" /\ save_format = "csv" /\ output.kind = "csv") =>
        \A j \in 1..N : \A k \in 1..L :
            LET cell == output.rows[j + 1][k + 1]
            IN  /\ unit_log[j][k].stage = "ok" => cell = FetchedText(j, k)
                /\ UnitFailed(j, k) => cell = <<>>
                /\ (~\E x \in 1..Len(all_results) :
                        /\ all_results[x].id = video_id(to_process[j])
                        /\ all_results[x].language = languages[k])
                   => cell = <<>>

\* position of a Result's language in the request, 0 for the language None
LangIndex(r) ==
    IF \E k \in 1..L : languages[k] = r.language
    THEN CHOOSE k \in 1..L : languages[k] = r.language
    ELSE 0

\* C17: with one thread at most one call is in progress, every earlier record
\* has been collected and no later one has started; inside a call the
\* languages are worked in request order; so the calls are collected in
\* record order, the collected list is the calls' lists in record order, each
\* in language order, and the ledger of the report follows the same order.
C17_SequentialOrder ==
    threads = 1 =>
        /\ \A i \in 1..N :
              task[i] \in {"running", "returned", "raised"} =>
                  /\ \A j \in 1..(i - 1) : task[j] = "collected"
                  /\ \A j \in (i + 1)..N : task[j] = "pending"
        /\ \A i \in 1..N : \A k \in 1..L :
              unit_log[i][k].stage # "none" =>
                  \A k2 \in 1..(k - 1) : unit_log[i][k2].stage # "none"
        /\ \A i \in 1..N : \A a, b \in 1..Len(results[i]) :
              (a < b /\ LangIndex(results[i][a]) > 0 /\ LangIndex(results[i][b]) > 0)
                  => LangIndex(results[i][a]) < LangIndex(results[i][b])
        /\ arrival = [j \in 1..Len(arrival) |-> j]
        /\ all_results = InInputOrder(Len(arrival))
        /\ report.kind = "summary" => report.ledger = FailuresOf(InInputOrder(N))

\* a finished single-threaded run of two records, each with a failed unit
C17_Witness ==
    /\ threads = 1 /\ phase = "done" /\ N = 2
    /\ report.kind = "summary"
    /\ \A i \in 1..N : \E k \in 1..L : UnitFailed(i, k) /\ ResultsFor(i, k) # {}
    /\ \E i \in 1..N : \E k \in 1..L : unit_log[i][k].stage = "ok"

\* min(len(items), limit)
Limit == IF num_videos < Len(items) THEN num_videos ELSE Len(items)

C19_MalformedLineSkipped ==
    phase # "load" =>
        (variant = "app" /\ SelectSeq(infile, IsJson) = <<>>)
        \/ (phase # "aborted" /\ items = SelectSeq(infile, IsJson))

\* C20: a run is abandoned only before scheduling: whenever the run has been
\* abandoned, at input reading or by an exception that left a call, no unit
\* was worked and no GET was issued.
C20_AbortOnlyBeforeScheduling ==
    phase \in {"aborted", "unwinding", "crashed"} =>
        \A i \in 1..N : \A k \in 1..L :
            unit_log[i][k].stage = "none" /\ requests[i][k] = 0

\* every field of orig is in out with its value, below the path `keys` too; the
\* container at the end of the path is exempt
RECURSIVE Unaltered(_, _, _)
Unaltered(orig, out, keys) ==
    \A f \in DOMAIN orig :
        /\ f \in DOMAIN out
        /\ IF keys # <<>> /\ f = Head(keys)
           THEN IF Tail(keys) = <<>> THEN TRUE
                ELSE IF IsDict(orig[f]) THEN Unaltered(orig[f], out[f], Tail(keys))
                ELSE out[f] = orig[f]
           ELSE out[f] = orig[f]

\* as Unaltered, but a segment of the path that is no mapping in orig is, in
\* out, a mapping that holds the next segment only
RECURSIVE KeptOffPath(_, _, _)
KeptOffPath(orig, out, keys) ==
    \A f \in DOMAIN orig :
        /\ f \in DOMAIN out
        /\ IF keys # <<>> /\ f = Head(keys)
           THEN IF Tail(keys) = <<>> THEN TRUE
                ELSE IF IsDict(orig[f]) THEN KeptOffPath(orig[f], out[f], Tail(keys))
                ELSE DOMAIN out[f] = {Head(Tail(keys))}
           ELSE out[f] = orig[f]

\* C21 as stated: in merged-record mode every emitted record holds every field
\* of its input record with the same value, except the language entries
\* inserted under the kind-specific path.
C21_FieldsUnaltered ==
    (phase = "done" /\ save_format = "ndjson") =>
        \A j \in 1..N : Unaltered(to_process[j], OutputLines[j], InsertPath)

\* C21, amended: in merged-record mode every emitted record holds every field
\* of its input record with the same value, except the language entries
\* inserted under the kind-specific path and except a segment of that path
\* that existed but was no mapping, which is replaced by a new mapping holding
\* only the rest of the path.
C21_FieldsKeptOffPath ==
    (phase = "done" /\ save_format = "ndjson") =>
        \A j \in 1..N : KeptOffPath(to_process[j], OutputLines[j], InsertPath)

\* a finished merged-record run that emitted a record whose claInfo was null and
\* a record into whose existing claInfo mapping a fetched text was inserted
C21_Witness ==
    /\ phase = "done" /\ save_format = "ndjson"
    /\ InsertPath = <<"data", "video", "claInfo", "caption">>
    /\ \E j \in 1..N : to_process[j].data.video.claInfo = JsonNull
    /\ \E j \in 1..N :
          /\ "captionInfos" \in DOMAIN to_process[j].data.video.claInfo
          /\ GetPath(OutputLines[j], InsertPath) # <<>>
          /\ OutputLines[j].data.video.claInfo.captionInfos
                = to_process[j].data.video.claInfo.captionInfos

\* the extension tree mode gives a file
TreeExtension == IF strip_timestamps THEN <<"t", "x", "t">> ELSE <<"v", "t", "t">>

\* C22: in tree mode a unit with a successful Result has written exactly one
\* file, named {identity}_{language}.{ext} with ext = txt when stripping was
\* requested and vtt otherwise, holding the normalized response body, and a
\* unit with a failed Result has written none; the archive of the app holds
\* exactly one such entry per successful Result of the collected list.
C22_OneFilePerSuccess ==
    /\ (variant # "app" /\ save_format = "text") =>
          \A i \in 1..N : \A k \in 1..L :
              /\ Len(files[i][k]) <= 1
              /\ \A j \in ResultsFor(i, k) :
                    IF results[i][j].success
                    THEN files[i][k] =
                           << [filename |-> <<video_id(to_process[i]), languages[k],
                                              TreeExtension>>,
                               content  |-> FetchedText(i, k)] >>
                    ELSE files[i][k] = <<>>
    /\ (variant = "app" /\ save_format = "text" /\ phase = "done") =>
          LET ok == SelectSeq(all_results, LAMBDA r : r.success)
          IN  /\ output.kind = "zip"
              /\ Len(output.entries) = Len(ok)
              /\ \A j \in 1..Len(ok) :
                    /\ output.entries[j].filename
                         = <<ok[j].id, ok[j].language, TreeExtension>>
                    /\ output.entries[j].content = ok[j].content
              /\ \A i \in 1..N : \A k \in 1..L :
                    unit_log[i][k].stage = "ok" =>
                        \E j \in 1..Len(ok) :
                            /\ ok[j].id = video_id(to_process[i])
                            /\ ok[j].language = languages[k]
                            /\ ok[j].content = FetchedText(i, k)

\* a finished tree-mode run of a script with stripping requested, in which one
\* unit wrote a file whose text differs from the response body and another
\* unit failed and wrote none
C22_Witness ==
    /\ phase = "done" /\ variant = "standalone" /\ save_format = "text"
    /\ strip_timestamps
    /\ \E i \in 1..N : \E k \in 1..L :
          /\ unit_log[i][k].stage = "ok"
          /\ Len(files[i][k]) = 1
          /\ files[i][k][1].content # ResponseText(Selected(i, k).Url)
    /\ \E i \in 1..N : \E k \in 1..L :
          /\ \E j \in ResultsFor(i, k) : ~results[i][j].success
          /\ files[i][k] = <<>>

\* the file writes performed so far
FileWrites ==
    UNION { { <<i, k, w>> : w \in 1..Len(files[i][k]) } : i \in 1..N, k \in 1..L }

\* C28: at the end of a tree-mode run of a script, a file was written for
\* (record identity, language) exactly when the collected list holds a success
\* Result for that identity and language, and the report's success count
\* equals the number of file writes.
C28_FileIffSuccessResult ==
    (phase = "done" /\ variant # "app" /\ save_format = "text") =>
        /\ \A i \in 1..N : \A k \in 1..L :
              files[i][k] # <<>>
                <=> \E x \in 1..Len(all_results) :
                       /\ all_results[x].success
                       /\ all_results[x].id = video_id(to_process[i])
                       /\ all_results[x].language = languages[k]
        /\ report.successful = Cardinality(FileWrites)

\* the units that have been worked
CompletedUnits ==
    {p \in (1..N) \X (1..L) : unit_log[p[1]][p[2]].stage # "none"}

\* the lists of the calls collected so far, in the order of collection
RECURSIVE InArrivalOrder(_)
InArrivalOrder(n) ==
    IF n = 0 THEN <<>> ELSE InArrivalOrder(n - 1) \o results[arrival[n]]

\* C26 as stated: the progress count of a finished run with a progress
\* consumer equals the number of completed (record, language) units.
C26_CountEqualsUnits ==
    (phase = "done" /\ Attached) => done_count = Cardinality(CompletedUnits)

\* C26, amended: the progress count never decreases and advances only when a
\* call of download_subtitle (one record, all its languages) is collected, by
\* exactly one when a progress consumer is attached; with a consumer it equals
\* the number of collected calls at every moment and the number of records
\* processed when the run has finished; and with or without a consumer the
\* collected list is the lists of the collected calls in collection order.
C26_CountsCollectedCalls ==
    /\ [][/\ done_count' >= done_count
          /\ done_count' # done_count =>
                (done_count' = done_count + 1 /\ Len(arrival') = Len(arrival) + 1)
          /\ (Attached /\ arrival' # arrival) => done_count' = done_count + 1
         ]_vars
    /\ [](Attached => done_count = Len(arrival))
    /\ []((phase = "done" /\ Attached) => done_count = N)
    /\ [](all_results = InArrivalOrder(Len(arrival)))

\* a finished run with a consumer, two records and two languages, all four
\* units worked, collected out of input order
C26_Witness ==
    /\ phase = "done" /\ Attached
    /\ N = 2 /\ L = 2
    /\ Cardinality(CompletedUnits) = 4
    /\ done_count = 2
    /\ arrival = <<2, 1>>

C30_ReportAfterAllUnitsAndEventually ==
    /\ []((output # NoOutput \/ report # NoOutput) =>
            \A i \in 1..N : task[i] = "collected")
    /\ <>(phase = "done" /\ report # NoOutput)

\* the lines, in order, each but the last followed by one newline
RECURSIVE NewlineJoined(_)
NewlineJoined(lines) ==
    IF lines = <<>> THEN <<>>
    ELSE IF Len(lines) = 1 THEN lines[1]
    ELSE NewlineJoined(SubSeq(lines, 1, Len(lines) - 1))
         \o <<"\n">> \o lines[Len(lines)]

IsHeaderLine(line) ==
    Len(line) >= 6 /\ SubSeq(line, 1, 6) = <<"W", "E", "B", "V", "T", "T">>

\* the lines the reference definition removes
DropsAsStated(line) ==
    IsTimecodeLine(line) \/ line = <<>> \/ IsHeaderLine(line)

\* the lines the reference definition removes once lines of white space count
\* as empty
DropsBlankToo(line) ==
    \/ IsTimecodeLine(line)
    \/ \A i \in 1..Len(line) : line[i] \in {" ", "\t"}
    \/ IsHeaderLine(line)

\* C23 as stated: normalize returns the input unchanged without stripping, and
\* with stripping the input's lines in order, joined by single newlines, minus
\* exactly the lines that match the timecode pattern, are empty or begin with
\* WEBVTT.
C23_EqualsReference ==
    passes = 1 =>
        normalized = IF strip_timestamps
                     THEN NewlineJoined(SelectSeq(splitlines(text),
                                                  LAMBDA l : ~DropsAsStated(l)))
                     ELSE text

\* C23, amended: as stated, except that with stripping a line that holds only
\* white space is removed like an empty one.
C23_EqualsReferenceBlankToo ==
    passes = 1 =>
        normalized = IF strip_timestamps
                     THEN NewlineJoined(SelectSeq(splitlines(text),
                                                  LAMBDA l : ~DropsBlankToo(l)))
                     ELSE text

\* stripping removed a line of one space and the final line boundary and kept
\* the cue text
C23_Witness ==
    /\ passes = 1 /\ strip_timestamps
    /\ text = <<" ", "\n", "H", "i", "\r">>
    /\ normalized = <<"H", "i">>

\* C24: a second normalization with stripping returns what the first returned.
C24_Idempotent ==
    (passes = 2 /\ strip_timestamps) =>
        normalized = parse_webvtt(text, TRUE)

\* a text whose first normalization removed a line and changed a line
\* boundary, normalized a second time
C24_Witness ==
    /\ passes = 2 /\ strip_timestamps
    /\ text = <<"W", "E", "B", "V", "T", "T", "\r", "H", "i", "\r">>
    /\ normalized = <<"H", "i">>

\* C25: the workers share no variable that one of them writes while another is
\* between its read and its write of it: when a worker stores the incremented
\* calls_made, the variable still holds the value the worker loaded.
C25_NoSharedReadModifyWrite ==
    \A w \in Workers :
        worker[w].pc = "store_calls" => worker[w].tmp = calls_made

\* C29: between two consecutive resets of calls_made the limiter admits at most
\* `calls` calls, and the argument it computes for sleep is never negative.
C29_WindowBoundAndSleepNonNegative ==
    /\ window_calls <= RateLimitCalls
    /\ \A w \in Workers : worker[w].arg >= 0

====
